---- MODULE Spec2Model ----
(***************************************************************************)
(* Model of src/src/func.rs (the function! and body! macros: the generated *)
(* ParseFunc::parse and Model::layout) and of src/src/layout/fixed.rs      *)
(* (NodeFixed::layout).                                                    *)
(***************************************************************************)
EXTENDS Integers, Sequences, FiniteSets, TLC

VARIABLES
    pc,         \* position of the operation in flight
    kind,       \* function type whose generated parse is running
    header,     \* FuncHeader: [name, args], args drained by the custom step
    origArgs,   \* header.args as handed to parse (history)
    body,       \* Option<Spanned<&str>>: None or [span, v]
    feedback,   \* the Feedback local of the running parse / layout
    preFb,      \* feedback right before the body! macro ran (history)
    consumed,   \* spans of the arguments the custom step has read (history)
    slot,       \* result of body!(opt: ...): None or Some(SyntaxModel)
    hidden,     \* HiderFunc's local `hidden`
    func,       \* the function value built by the custom step
    pass,       \* the Pass returned by parse / Model::layout
    parseCalls, \* calls of crate::syntax::parse made by this parse (log)
    node,       \* the NodeFixed being laid out
    areas,      \* the enclosing Areas handed to NodeFixed::layout
    areas0,     \* the enclosing Areas at the call (history)
    ctx,        \* the LayoutContext (&mut)
    ctx0,       \* the LayoutContext at the call (history)
    size,       \* the local `size` of NodeFixed::layout
    childLog,   \* calls of child.layout made by NodeFixed::layout (log)
    layouted,   \* the Layouted returned by NodeFixed::layout
    target,     \* the function value whose Model::layout is running
    bodyErrs,   \* diagnostics the running user layout body records
    lastPass    \* the Pass returned by the previous Model::layout invocation

vars == <<pc, kind, header, origArgs, body, feedback, preFb, consumed, slot, hidden,
          func, pass, parseCalls, node, areas, areas0, ctx, ctx0, size,
          childLog, layouted, target, bodyErrs, lastPass>>

parseVars == <<kind, header, origArgs, body, preFb, consumed, slot, hidden, func,
               parseCalls>>
fixedVars == <<node, areas, areas0, ctx, ctx0, size, childLog, layouted>>
modelVars == <<target, bodyErrs, lastPass>>

(* ---------------------------- bounds ---------------------------------- *)
MaxArgs == 3
MaxBodyLen == 2
MaxLen == 2
MaxRel == 2
MaxAbs == 1
MaxCmds == 2
MaxBodyErrs == 2

None == [tag |-> "None"]
Some(x) == [tag |-> "Some", v |-> x]

(* ------------------------- diagnostics -------------------------------- *)
\* err!(span; message)
Err(span, msg) == [span |-> span, msg |-> msg]

\* Feedback::new()
FeedbackNew == [errors |-> <<>>, decos |-> <<>>]

\* Feedback::extend(other): concatenates both sequences in order
Extend(fb, other) ==
    [errors |-> fb.errors \o other.errors, decos |-> fb.decos \o other.decos]

\* Pass::new(output, feedback)
PassNew(output, fb) == [output |-> output, feedback |-> fb]

(* --------------------------- headers ---------------------------------- *)
\* A span is <<start, end>>. The function name occupies <<0, 1>>, the i-th
\* argument <<i, i + 1>>, and the body starts after the closing bracket.
NameSpan == <<0, 1>>
ArgSpan(i) == <<i, i + 1>>
BodyStart(n) == n + 2

ArgShapes ==
    [key : {"pos"}, v : {"true", "false", "12pt"}]
        \cup [key : {"k"}, v : {"12pt"}]

RECURSIVE SeqsUpTo(_, _)
SeqsUpTo(S, n) ==
    IF n = 0 THEN {<<>>}
    ELSE LET shorter == SeqsUpTo(S, n - 1)
         IN  shorter \cup {Append(s, x) : s \in {t \in shorter : Len(t) = n - 1}, x \in S}

\* The argument lists the parser can hand over: every argument carries the
\* span of its place in the source.
ArgLists ==
    {[i \in 1..Len(s) |-> [span |-> ArgSpan(i), key |-> s[i].key, v |-> s[i].v]]
        : s \in SeqsUpTo(ArgShapes, MaxArgs)}

Headers == {[name |-> [span |-> NameSpan, v |-> "f"], args |-> a] : a \in ArgLists}

\* Body text is a sequence of tokens: "t" is plain text, "x" is a token the
\* markup parser reports an error for.
BodyTexts == SeqsUpTo({"t", "x"}, MaxBodyLen)

Bodies(h) ==
    {None} \cup
    {Some([span |-> <<BodyStart(Len(h.args)), BodyStart(Len(h.args)) + Len(t)>>,
           v |-> t]) : t \in BodyTexts}

\* The function types of the model: parse(default), the documented HiderFunc,
\* and two functions that read their flag first and then apply body!(opt: ..)
\* resp. body!(nope: ..).
Kinds == {"Default", "Hider", "FlagOpt", "FlagNope"}

\* FuncArgs::into_iter(): the remaining arguments in their order
ArgsIntoIter(args) == args

\* crate::syntax::parse(start, src, ctx): one error per "x" token, spanned
\* relative to start; the output keeps the text tokens.
RECURSIVE ParseErrors(_, _, _)
ParseErrors(start, src, i) ==
    IF i > Len(src) THEN <<>>
    ELSE (IF src[i] = "x"
          THEN <<Err(<<start + i - 1, start + i>>, "unexpected token")>>
          ELSE <<>>) \o ParseErrors(start, src, i + 1)

RECURSIVE ParseDecos(_, _, _)
ParseDecos(start, src, i) ==
    IF i > Len(src) THEN <<>>
    ELSE (IF src[i] = "t"
          THEN <<[span |-> <<start + i - 1, start + i>>, v |-> "text"]>>
          ELSE <<>>) \o ParseDecos(start, src, i + 1)

SyntaxParse(start, src) ==
    PassNew([nodes |-> SelectSeq(src, LAMBDA tok : tok = "t"), at |-> start],
            [errors |-> ParseErrors(start, src, 1),
             decos |-> ParseDecos(start, src, 1)])

(* ----------------------------- body! ---------------------------------- *)
\* body!(opt: body, ctx, feedback): the value of the expression
BodyOptValue(b) ==
    IF b.tag = "None" THEN None
    ELSE Some(SyntaxParse(b.v.span[1], b.v.v).output)

\* body!(opt: ...) putting the nested feedback in front of the function's
BodyOptFeedbackFront(b, fb) ==
    IF b.tag = "None" THEN fb
    ELSE Extend(SyntaxParse(b.v.span[1], b.v.v).feedback, fb)

\* body!(opt: ...): the feedback after the expression
BodyOptFeedback(b, fb) ==
    IF b.tag = "None" THEN fb
    ELSE Extend(fb, SyntaxParse(b.v.span[1], b.v.v).feedback)

\* body!(opt: ...): the calls of crate::syntax::parse it makes
BodyOptCalls(b) ==
    IF b.tag = "None" THEN <<>>
    ELSE <<[start |-> b.v.span[1], src |-> b.v.v]>>

\* body!(nope: ...) that drops the body without reporting it
BodyNopeSilent(b, fb) == fb

\* body!(nope: body, feedback): the feedback after the statement
BodyNopeFeedback(b, fb) ==
    IF b.tag = "Some"
    THEN [fb EXCEPT !.errors = Append(@, Err(b.v.span, "unexpected body"))]
    ELSE fb

(* ------------------- header.args.pos.get::<bool>() -------------------- *)
IsBool(a) == a.key = "pos" /\ a.v \in {"true", "false"}

BoolIndexes(args) == {i \in 1..Len(args) : IsBool(args[i])}

FirstBool(args) == CHOOSE i \in BoolIndexes(args) : \A j \in BoolIndexes(args) : i <= j

\* the value extracted: Some(bool) for the first positional boolean
PosGetBool(args) ==
    IF BoolIndexes(args) = {} THEN None
    ELSE Some(args[FirstBool(args)].v = "true")

\* the arguments left in the header after the extraction
PosGetBoolRest(args) ==
    IF BoolIndexes(args) = {} THEN args
    ELSE [i \in 1..(Len(args) - 1) |->
            IF i < FirstBool(args) THEN args[i] ELSE args[i + 1]]

\* the message of or_missing for the argument names in use
MissingMsg(name) ==
    IF name = "hidden" THEN "missing argument: hidden" ELSE "missing argument"

\* .or_missing(&mut f.errors, header.name.span, "hidden")
OrMissing(opt, fb, span, name) ==
    IF opt.tag = "None"
    THEN [fb EXCEPT !.errors = Append(@, Err(span, MissingMsg(name)))]
    ELSE fb

\* .unwrap_or(true)
UnwrapOrNot(opt, default) == IF opt.tag = "Some" THEN opt.v ELSE ~default

\* .unwrap_or(false)
UnwrapOr(opt, default) == IF opt.tag = "Some" THEN opt.v ELSE default

(* ------------------- generated ParseFunc::parse ----------------------- *)
\* the loop pushing to the front of feedback.errors
RECURSIVE UnexpectedArgsRev(_)
UnexpectedArgsRev(args) ==
    IF args = <<>> THEN <<>>
    ELSE UnexpectedArgsRev(Tail(args)) \o <<Err(Head(args).span, "unexpected argument")>>

\* for arg in header.args.into_iter() { feedback.errors.push(err!(...)) }
RECURSIVE UnexpectedArgs(_)
UnexpectedArgs(args) ==
    IF args = <<>> THEN <<>>
    ELSE <<Err(Head(args).span, "unexpected argument")>> \o UnexpectedArgs(Tail(args))

DrainArgs(args, fb) ==
    [fb EXCEPT !.errors = @ \o UnexpectedArgs(ArgsIntoIter(args))]

Idle == "idle"

\* the spans of the arguments that args holds and rest no longer does
Taken(args, rest) ==
    {args[i].span : i \in 1..Len(args)} \ {rest[i].span : i \in 1..Len(rest)}

\* parse(header, body, ctx, metadata) is called: line 128 makes the Feedback
ParseCall ==
    /\ pc = Idle
    /\ \E k \in Kinds, h \in Headers :
        \E b \in Bodies(h) :
            /\ kind' = k
            /\ header' = h
            /\ origArgs' = h.args
            /\ body' = b
    /\ feedback' = FeedbackNew
    /\ preFb' = FeedbackNew
    /\ consumed' = {}
    /\ slot' = None
    /\ hidden' = FALSE
    /\ func' = None
    /\ pass' = None
    /\ parseCalls' = <<>>
    /\ pc' = "custom"
    /\ UNCHANGED <<fixedVars, modelVars>>

\* parse(default): the custom step is { Default::default() }
DefaultCode ==
    /\ pc = "custom"
    /\ kind = "Default"
    /\ func' = [type |-> "Default"]
    /\ pc' = "drain"
    /\ UNCHANGED <<kind, header, origArgs, body, feedback, preFb, consumed,
                   slot, hidden, pass, parseCalls, fixedVars, modelVars>>

\* HiderFunc: let body = body!(opt: body, ctx, f);
HiderBody ==
    /\ pc = "custom"
    /\ kind = "Hider"
    /\ preFb' = feedback
    /\ slot' = BodyOptValue(body)
    /\ feedback' = BodyOptFeedback(body, feedback)
    /\ parseCalls' = parseCalls \o BodyOptCalls(body)
    /\ pc' = "hider_hidden"
    /\ UNCHANGED <<kind, header, origArgs, body, consumed, hidden, func, pass,
                   fixedVars, modelVars>>

\* HiderFunc: let hidden = header.args.pos.get::<bool>(..).or_missing(..)
\*                             .unwrap_or(false);
HiderHidden ==
    /\ pc = "hider_hidden"
    /\ hidden' = UnwrapOr(PosGetBool(header.args), FALSE)
    /\ header' = [header EXCEPT !.args = PosGetBoolRest(header.args)]
    /\ consumed' = consumed \cup Taken(header.args, PosGetBoolRest(header.args))
    /\ feedback' = OrMissing(PosGetBool(header.args), feedback,
                             header.name.span, "hidden")
    /\ pc' = "hider_build"
    /\ UNCHANGED <<kind, origArgs, body, preFb, slot, func, pass,
                   parseCalls, fixedVars, modelVars>>

\* HiderFunc: HiderFunc { body: if hidden { None } else { body } }
HiderBuild ==
    /\ pc = "hider_build"
    /\ func' = [type |-> "Hider", body |-> IF hidden THEN None ELSE slot]
    /\ pc' = "drain"
    /\ UNCHANGED <<kind, header, origArgs, body, feedback, preFb, consumed,
                   slot, hidden, pass, parseCalls, fixedVars, modelVars>>

\* a function that reads its flag before it looks at the body
FlagArg ==
    /\ pc = "custom"
    /\ kind \in {"FlagOpt", "FlagNope"}
    /\ hidden' = UnwrapOr(PosGetBool(header.args), FALSE)
    /\ header' = [header EXCEPT !.args = PosGetBoolRest(header.args)]
    /\ consumed' = consumed \cup Taken(header.args, PosGetBoolRest(header.args))
    /\ feedback' = OrMissing(PosGetBool(header.args), feedback,
                             header.name.span, "hidden")
    /\ pc' = "flag_body"
    /\ UNCHANGED <<kind, origArgs, body, preFb, slot, func, pass,
                   parseCalls, fixedVars, modelVars>>

\* ... and then has let body = body!(opt: body, ctx, f);
FlagBodyOpt ==
    /\ pc = "flag_body"
    /\ kind = "FlagOpt"
    /\ preFb' = feedback
    /\ slot' = BodyOptValue(body)
    /\ feedback' = BodyOptFeedback(body, feedback)
    /\ parseCalls' = parseCalls \o BodyOptCalls(body)
    /\ pc' = "flag_build"
    /\ UNCHANGED <<kind, header, origArgs, body, consumed, hidden, func, pass,
                   fixedVars, modelVars>>

\* ... or body!(nope: body, f);
FlagBodyNope ==
    /\ pc = "flag_body"
    /\ kind = "FlagNope"
    /\ preFb' = feedback
    /\ feedback' = BodyNopeFeedback(body, feedback)
    /\ pc' = "flag_build"
    /\ UNCHANGED <<kind, header, origArgs, body, consumed, slot, hidden, func,
                   pass, parseCalls, fixedVars, modelVars>>

\* ... and builds its value from the flag and the body slot
FlagBuild ==
    /\ pc = "flag_build"
    /\ func' = [type |-> kind, flag |-> hidden, body |-> slot]
    /\ pc' = "drain"
    /\ UNCHANGED <<kind, header, origArgs, body, feedback, preFb, consumed,
                   slot, hidden, pass, parseCalls, fixedVars, modelVars>>

\* lines 134-138: the leftover arguments become errors, the Pass is returned
ParseReturn ==
    /\ pc = "drain"
    /\ feedback' = DrainArgs(header.args, feedback)
    /\ header' = [header EXCEPT !.args = <<>>]
    /\ pass' = Some(PassNew(func, DrainArgs(header.args, feedback)))
    /\ pc' = "parsed"
    /\ UNCHANGED <<kind, origArgs, body, preFb, consumed, slot, hidden, func,
                   parseCalls, fixedVars, modelVars>>

\* the caller takes the Pass; the next call starts from scratch
ParseDone ==
    /\ pc = "parsed"
    /\ pc' = Idle
    /\ kind' = "Default"
    /\ header' = [name |-> [span |-> NameSpan, v |-> "f"], args |-> <<>>]
    /\ origArgs' = <<>>
    /\ body' = None
    /\ feedback' = FeedbackNew
    /\ preFb' = FeedbackNew
    /\ consumed' = {}
    /\ slot' = None
    /\ hidden' = FALSE
    /\ func' = None
    /\ pass' = None
    /\ parseCalls' = <<>>
    /\ UNCHANGED <<fixedVars, modelVars>>

(* ------------------------- geometry, areas ---------------------------- *)
Lengths == 0..MaxLen

\* Size::new(width, height)
SizeNew(w, h) == [width |-> w, height |-> h]

Sizes == {SizeNew(w, h) : w \in Lengths, h \in Lengths}

\* Linear: a ratio of the reference plus an absolute length
Linears == [rel : 0..MaxRel, abs : 0..MaxAbs]

\* Linear::resolve(one)
Resolve(l, one) == l.rel * one + l.abs

\* Areas::once(size): one region, full == rem == size, nothing after it
Once(s) == [current |-> [rem |-> s, full |-> s], backlog |-> <<>>]

\* the Areas a caller can hand over: rem never exceeds full
EnclosingAreas ==
    {[current |-> [rem |-> r, full |-> f], backlog |-> b] :
        r \in Sizes, f \in Sizes, b \in {<<>>, <<SizeNew(MaxLen, MaxLen)>>}}

FitsIn(r, f) == r.width <= f.width /\ r.height <= f.height

Children == {"fill", "unit", "counting"}

\* child.layout(ctx, &areas) for the children of the model: "fill" takes the
\* whole region and reports whether another region follows, "unit" always
\* takes 1x1, "counting" numbers its layouts in the context.
ChildLayout(child, c, ar) ==
    IF child = "fill"
    THEN [layouted |-> [size |-> ar.current.rem, of |-> ar.current.full,
                        more |-> ar.backlog /= <<>>, nr |-> 0],
          ctx |-> c]
    ELSE IF child = "unit"
    THEN [layouted |-> [size |-> SizeNew(1, 1), of |-> ar.current.full,
                        more |-> FALSE, nr |-> 0],
          ctx |-> c]
    ELSE [layouted |-> [size |-> ar.current.rem, of |-> ar.current.full,
                        more |-> FALSE, nr |-> c + 1],
          ctx |-> c + 1]

(* ------------------------ NodeFixed::layout --------------------------- *)
\* the width falling back to full.width
FixedWidthFull(n, a) ==
    IF n.width.tag = "Some" THEN Resolve(n.width.v, a.full.width) ELSE a.full.width

\* self.width.map(|w| w.resolve(full.width)).unwrap_or(rem.width)
FixedWidth(n, a) ==
    IF n.width.tag = "Some" THEN Resolve(n.width.v, a.full.width) ELSE a.rem.width

\* the height resolved against rem.height
FixedHeightRem(n, a) ==
    IF n.height.tag = "Some" THEN Resolve(n.height.v, a.rem.height) ELSE a.rem.height

\* self.height.map(|h| h.resolve(full.height)).unwrap_or(rem.height)
FixedHeight(n, a) ==
    IF n.height.tag = "Some" THEN Resolve(n.height.v, a.full.height) ELSE a.rem.height

\* lines 17-21
FixedSize(n, ar) == SizeNew(FixedWidth(n, ar.current), FixedHeight(n, ar.current))

\* Areas::repeat(size) in place of Areas::once(size)
FixedChildAreasRepeat(s) == [current |-> [rem |-> s, full |-> s], backlog |-> <<s>>]

\* line 23: let areas = Areas::once(size);
FixedChildAreas(s) == Once(s)

NoSize == SizeNew(0, 0)
NoNode == [width |-> None, height |-> None, child |-> "fill"]

\* NodeFixed::layout(&self, ctx, areas) is called
FixedCall ==
    /\ pc = Idle
    /\ \E w \in {None} \cup {Some(l) : l \in Linears},
          h \in {None} \cup {Some(l) : l \in Linears},
          ch \in Children :
        node' = [width |-> w, height |-> h, child |-> ch]
    /\ \E ar \in EnclosingAreas :
        /\ FitsIn(ar.current.rem, ar.current.full)
        /\ areas' = ar
        /\ areas0' = ar
    /\ \E c \in 0..1 :
        /\ ctx' = c
        /\ ctx0' = c
    /\ size' = NoSize
    /\ childLog' = <<>>
    /\ layouted' = None
    /\ pc' = "fixed_resolve"
    /\ UNCHANGED <<parseVars, feedback, pass, modelVars>>

\* lines 17-21: the size is resolved
FixedResolve ==
    /\ pc = "fixed_resolve"
    /\ size' = FixedSize(node, areas)
    /\ pc' = "fixed_child"
    /\ UNCHANGED <<parseVars, feedback, pass, modelVars, node, areas, areas0,
                   ctx, ctx0, childLog, layouted>>

\* the child laid out into the enclosing areas
FixedDelegateEnclosing ==
    /\ pc = "fixed_child"
    /\ childLog' = Append(childLog, [child |-> node.child, ctx |-> ctx,
                                     areas |-> areas])
    /\ layouted' = Some(ChildLayout(node.child, ctx, areas).layouted)
    /\ ctx' = ChildLayout(node.child, ctx, areas).ctx
    /\ pc' = "fixed_done"
    /\ UNCHANGED <<parseVars, feedback, pass, modelVars, node, areas, areas0,
                   ctx0, size>>

\* lines 23-24: the child is laid out into Areas::once(size)
FixedDelegate ==
    /\ pc = "fixed_child"
    /\ childLog' = Append(childLog, [child |-> node.child, ctx |-> ctx,
                                     areas |-> FixedChildAreas(size)])
    /\ layouted' = Some(ChildLayout(node.child, ctx, FixedChildAreas(size)).layouted)
    /\ ctx' = ChildLayout(node.child, ctx, FixedChildAreas(size)).ctx
    /\ pc' = "fixed_done"
    /\ UNCHANGED <<parseVars, feedback, pass, modelVars, node, areas, areas0,
                   ctx0, size>>

FixedDone ==
    /\ pc = "fixed_done"
    /\ pc' = Idle
    /\ node' = NoNode
    /\ areas' = Once(NoSize)
    /\ areas0' = Once(NoSize)
    /\ ctx' = 0
    /\ ctx0' = 0
    /\ size' = NoSize
    /\ childLog' = <<>>
    /\ layouted' = None
    /\ UNCHANGED <<parseVars, feedback, pass, modelVars>>

(* ------------------- generated Model::layout -------------------------- *)
\* the function values laid out: HiderFunc with or without a body, and a
\* function whose layout body emits n commands
Targets ==
    {[type |-> "Hider", body |-> b] :
        b \in {None} \cup {Some(SyntaxParse(2, t).output) : t \in {<<"t">>}}}
    \cup {[type |-> "Other", n |-> n] : n \in 0..MaxCmds}

LayoutErrs == {Err(<<0, 1>>, "a"), Err(<<1, 2>>, "b")}

\* what the user's layout body records, by function type: HiderFunc's
\* records nothing
BodyErrChoices(t) ==
    IF t.type = "Hider" THEN {<<>>} ELSE SeqsUpTo(LayoutErrs, MaxBodyErrs)

\* the commands the layout body evaluates to
LayoutCommands(t) ==
    IF t.type = "Hider"
    THEN (IF t.body.tag = "Some" THEN <<[cmd |-> "LayoutSyntaxModel", model |-> t.body.v]>>
          ELSE <<>>)
    ELSE [i \in 1..t.n |-> [cmd |-> "Add", model |-> i]]

\* the feedback of the previous invocation kept
LayoutFeedbackKept(prev) == prev

\* line 157: let mut feedback = Feedback::new();
LayoutFeedbackInit(prev) == FeedbackNew

\* Model::layout(&self, ctx) is polled: line 157
LayoutCall ==
    /\ pc = Idle
    /\ \E t \in Targets :
        /\ target' = t
        /\ \E es \in BodyErrChoices(t) : bodyErrs' = es
    /\ feedback' = LayoutFeedbackInit(lastPass.feedback)
    /\ pass' = None
    /\ pc' = "layout_body"
    /\ UNCHANGED <<parseVars, fixedVars, lastPass>>

\* line 159: let commands = $code; the body records its diagnostics
LayoutBody ==
    /\ pc = "layout_body"
    /\ feedback' = [feedback EXCEPT !.errors = @ \o bodyErrs]
    /\ pc' = "layout_return"
    /\ UNCHANGED <<parseVars, fixedVars, modelVars, pass>>

\* line 160: Pass::new(commands, feedback)
LayoutReturn ==
    /\ pc = "layout_return"
    /\ pass' = Some(PassNew(LayoutCommands(target), feedback))
    /\ pc' = "laid_out"
    /\ UNCHANGED <<parseVars, fixedVars, modelVars, feedback>>

\* the caller takes the Pass and keeps it
LayoutDone ==
    /\ pc = "laid_out"
    /\ lastPass' = pass.v
    /\ pass' = None
    /\ feedback' = FeedbackNew
    /\ target' = [type |-> "Other", n |-> 0]
    /\ bodyErrs' = <<>>
    /\ pc' = Idle
    /\ UNCHANGED <<parseVars, fixedVars>>

(* -------------------------- specifications ---------------------------- *)
Init ==
    /\ pc = Idle
    /\ kind = "Default"
    /\ header = [name |-> [span |-> NameSpan, v |-> "f"], args |-> <<>>]
    /\ origArgs = <<>>
    /\ body = None
    /\ feedback = FeedbackNew
    /\ preFb = FeedbackNew
    /\ consumed = {}
    /\ slot = None
    /\ hidden = FALSE
    /\ func = None
    /\ pass = None
    /\ parseCalls = <<>>
    /\ node = NoNode
    /\ areas = Once(NoSize)
    /\ areas0 = Once(NoSize)
    /\ ctx = 0
    /\ ctx0 = 0
    /\ size = NoSize
    /\ childLog = <<>>
    /\ layouted = None
    /\ target = [type |-> "Other", n |-> 0]
    /\ bodyErrs = <<>>
    /\ lastPass = PassNew(<<>>, FeedbackNew)

NextParse ==
    \/ ParseCall
    \/ DefaultCode
    \/ HiderBody
    \/ HiderHidden
    \/ HiderBuild
    \/ FlagArg
    \/ FlagBodyOpt
    \/ FlagBodyNope
    \/ FlagBuild
    \/ ParseReturn
    \/ ParseDone

NextFixed ==
    \/ FixedCall
    \/ FixedResolve
    \/ FixedDelegate
    \/ FixedDone

NextModel ==
    \/ LayoutCall
    \/ LayoutBody
    \/ LayoutReturn
    \/ LayoutDone

SpecParse == Init /\ [][NextParse]_vars
SpecFixed == Init /\ [][NextFixed]_vars
SpecModel == Init /\ [][NextModel]_vars

(* ------------------------------ claims -------------------------------- *)
Spans(q) == [i \in 1..Len(q) |-> q[i].span]
WithMsg(errs, m) == SelectSeq(errs, LAMBDA e : e.msg = m)
Leftover(args, cons) == SelectSeq(args, LAMBDA a : a.span \notin cons)
NoBool(args) ==
    \A i \in 1..Len(args) : ~(args[i].key = "pos" /\ args[i].v \in {"true", "false"})

\* C1: when parse has returned, the "unexpected argument" errors of the Pass
\* are, in order, exactly the spans of the original arguments the custom step
\* did not consume: one per leftover argument, none for a consumed one.
C1_UnexpectedArguments ==
    pc = "parsed" =>
        Spans(WithMsg(pass.v.feedback.errors, "unexpected argument"))
            = Spans(Leftover(origArgs, consumed))

C1_Witness ==
    /\ pc = "parsed"
    /\ consumed /= {}
    /\ Len(Leftover(origArgs, consumed)) >= 2

\* C2: in the returned Feedback the errors are in source order: an error at
\* an earlier source position (header before body) precedes a later one.
C2_SourceOrder ==
    pc = "parsed" =>
        \A i, j \in 1..Len(pass.v.feedback.errors) :
            i < j => pass.v.feedback.errors[i].span[1]
                        <= pass.v.feedback.errors[j].span[1]

\* C3: body!(nope: ..) appends one "unexpected body" error at the body's
\* span when there is a body and nothing otherwise; it never calls the
\* markup parser, and the function value depends on the header alone.
C3_NopeBody ==
    /\ (pc = "flag_build" /\ kind = "FlagNope") =>
        /\ feedback.errors = preFb.errors \o
              (IF body.tag = "Some"
               THEN <<[span |-> body.v.span, msg |-> "unexpected body"]>>
               ELSE <<>>)
        /\ feedback.decos = preFb.decos
        /\ parseCalls = <<>>
        /\ slot = None
    /\ (pc = "parsed" /\ kind = "FlagNope") =>
        /\ parseCalls = <<>>
        /\ Len(WithMsg(pass.v.feedback.errors, "unexpected body"))
              = (IF body.tag = "Some" THEN 1 ELSE 0)
        /\ pass.v.output = [type |-> "FlagNope", body |-> None,
                            flag |-> \E i \in 1..Len(origArgs) :
                                        /\ origArgs[i].key = "pos"
                                        /\ origArgs[i].v = "true"
                                        /\ NoBool(SubSeq(origArgs, 1, i - 1))]

C3_Witness ==
    /\ pc = "parsed"
    /\ kind = "FlagNope"
    /\ body.tag = "Some"
    /\ Len(body.v.v) = MaxBodyLen
    /\ preFb.errors /= <<>>

\* C4: body!(opt: ..) without a body gives None, calls no parser and leaves
\* the feedback alone; with a body it calls the markup parser once on the body
\* text at body.span.start, appends the parser's feedback after what was
\* there, and gives Some of the parser's output.
C4_OptBody ==
    (pc \in {"hider_hidden", "flag_build"} /\ kind \in {"Hider", "FlagOpt"}) =>
        IF body.tag = "None"
        THEN slot = None /\ parseCalls = <<>> /\ feedback = preFb
        ELSE /\ parseCalls = <<[start |-> body.v.span[1], src |-> body.v.v]>>
             /\ slot = Some(SyntaxParse(body.v.span[1], body.v.v).output)
             /\ feedback.errors = preFb.errors \o
                    SyntaxParse(body.v.span[1], body.v.v).feedback.errors
             /\ feedback.decos = preFb.decos \o
                    SyntaxParse(body.v.span[1], body.v.v).feedback.decos

C4_Witness ==
    /\ pc = "flag_build"
    /\ kind = "FlagOpt"
    /\ body.tag = "Some"
    /\ preFb.errors /= <<>>
    /\ Len(feedback.errors) > Len(preFb.errors)

\* C5: parse always returns a Pass holding the function value; for HiderFunc
\* without a positional boolean there is one "missing argument" error at the
\* name's span, hidden is false and the parsed body is kept in the output.
C5_ParseAlwaysReturns ==
    /\ pc \in {"custom", "hider_hidden", "hider_build", "flag_body",
               "flag_build", "drain"} => ENABLED NextParse
    /\ pc = "parsed" =>
        /\ pass.tag = "Some"
        /\ pass.v.output = func
        /\ func /= None
    /\ (pc = "parsed" /\ kind = "Hider" /\ NoBool(origArgs)) =>
        /\ Spans(WithMsg(pass.v.feedback.errors, "missing argument: hidden"))
              = <<NameSpan>>
        /\ hidden = FALSE
        /\ pass.v.output.type = "Hider"
        /\ pass.v.output.body = slot
        /\ pass.v.output.body.tag = body.tag

C5_Witness ==
    /\ pc = "parsed"
    /\ kind = "Hider"
    /\ NoBool(origArgs)
    /\ origArgs /= <<>>
    /\ body.tag = "Some"
    /\ pass.v.output.body.tag = "Some"

\* C6: with width = None and height = None the child's area has the size of
\* the enclosing current area's rem, whatever full is.
C6_UnsetTakesRem ==
    (pc = "fixed_done" /\ node.width = None /\ node.height = None) =>
        /\ Len(childLog) = 1
        /\ childLog[1].areas.current.full = areas0.current.rem
        /\ childLog[1].areas.current.rem = areas0.current.rem

C6_Witness ==
    /\ pc = "fixed_done"
    /\ node.width = None
    /\ node.height = None
    /\ areas0.current.rem.width < areas0.current.full.width
    /\ areas0.current.rem.height < areas0.current.full.height

\* C7: each dimension is resolved on its own: a set dimension is
\* L.resolve(full) of that dimension, whatever rem is; an unset one is rem of
\* that dimension, whatever the other dimension is.
C7_Independent ==
    pc = "fixed_done" =>
        LET a == childLog[1].areas.current.full
            cur == areas0.current
        IN  /\ node.width.tag = "Some" =>
                /\ a.width = Resolve(node.width.v, cur.full.width)
                /\ \A r \in Lengths :
                     FixedWidth(node, [cur EXCEPT !.rem.width = r]) = a.width
            /\ node.height.tag = "Some" =>
                /\ a.height = Resolve(node.height.v, cur.full.height)
                /\ \A r \in Lengths :
                     FixedHeight(node, [cur EXCEPT !.rem.height = r]) = a.height
            /\ node.width.tag = "None" => a.width = cur.rem.width
            /\ node.height.tag = "None" => a.height = cur.rem.height

C7_Witness ==
    /\ pc = "fixed_done"
    /\ node.width.tag = "None"
    /\ node.height.tag = "Some"
    /\ size.height /= areas0.current.rem.height
    /\ areas0.current.rem.height < areas0.current.full.height
    /\ areas0.current.rem.width < areas0.current.full.width

\* C8: NodeFixed::layout calls the child's layout once, with the context it
\* was given and Areas::once(resolved size), and returns the child's result
\* as it is.
C8_RoundTrip ==
    pc = "fixed_done" =>
        /\ childLog = <<[child |-> node.child, ctx |-> ctx0,
                         areas |-> Once(size)]>>
        /\ size = SizeNew(FixedWidth(node, areas0.current),
                          FixedHeight(node, areas0.current))
        /\ layouted = Some(ChildLayout(node.child, ctx0, Once(size)).layouted)
        /\ ctx = ChildLayout(node.child, ctx0, Once(size)).ctx

C8_Witness ==
    /\ pc = "fixed_done"
    /\ node.child = "fill"
    /\ areas0.backlog /= <<>>
    /\ size /= areas0.current.rem
    /\ size /= areas0.current.full

\* C9: the Pass of a Model::layout invocation holds the diagnostics its own
\* layout body recorded and no others, with the body's commands in order.
C9_FreshFeedback ==
    pc = "laid_out" =>
        /\ pass.v.feedback.errors = bodyErrs
        /\ pass.v.feedback.decos = <<>>
        /\ pass.v.output = LayoutCommands(target)

C9_Witness ==
    /\ pc = "laid_out"
    /\ lastPass.feedback.errors /= <<>>
    /\ bodyErrs /= <<>>
    /\ bodyErrs /= lastPass.feedback.errors
    /\ Len(pass.v.output) = MaxCmds

\* C10: the child gets a single region with full = rem = resolved size and
\* no successor, also when that size exceeds the enclosing area; the
\* enclosing Areas are left as they were.
C10_SingleRegion ==
    pc = "fixed_done" =>
        /\ Len(childLog) = 1
        /\ childLog[1].areas.current.full = size
        /\ childLog[1].areas.current.rem = size
        /\ childLog[1].areas.current.rem.width <= childLog[1].areas.current.full.width
        /\ childLog[1].areas.current.rem.height <= childLog[1].areas.current.full.height
        /\ childLog[1].areas.backlog = <<>>
        /\ areas = areas0

C10_Witness ==
    /\ pc = "fixed_done"
    /\ size.width > areas0.current.full.width
    /\ size.height > areas0.current.rem.height
    /\ areas0.backlog /= <<>>

====
